---------------------------- MODULE Spec2Model ----------------------------
(* A model of stars_fetcher: the typed GitHub client (src/api), the       *)
(* command line's own star/unstar requests (src/main.rs) and the          *)
(* configuration resolution (src/config/config.rs).                       *)
(*                                                                        *)
(* SpecApi    one endpoint operation at a time against an arbitrary       *)
(*            server answer (transport failure, or a status and a body).  *)
(* SpecConfig Config::new against an arbitrary config directory, config   *)
(*            file and GITHUB_TOKEN, over successive process invocations. *)
(* SpecClient the construction and validation of a client                 *)
(*            (src/api/client.rs) from an arbitrary configuration.        *)
(* SpecDownload download_repo (src/api/repos.rs), step by step, against   *)
(*            an arbitrary file system and git binary.                    *)
(* SpecMain   a run of the command line (src/main.rs): main, and the      *)
(*            interactive menu, request by request.                       *)
(* SpecSelector the repository selector (src/ui/selector.rs) on an        *)
(*            arbitrary list of JSON values and an arbitrary user.        *)
EXTENDS Integers, Sequences, FiniteSets, TLC

VARIABLES
    op,         \* the endpoint operation that ran last, "idle" before a call
    response,   \* what the server answered to that operation's request
    result,     \* the Result the operation returned
    sent,       \* the HTTP requests the operation sent
    out,        \* the lines the command printed on stdout
    client,     \* the GitHubClient the operation is called on
    conf,       \* the Config the constructor was given, or Config::new gave
    cfg_pc,     \* Config::new: "start" before the call, "done" after it
    dir,        \* what dirs::config_dir() yields: "some" or "none"
    file,       \* the config file <config_dir>/stars_fetcher/config.toml
    env,        \* the GITHUB_TOKEN environment variable
    io,         \* what the file system lets create_dir_all and fs::write do
    ret,        \* what Config::new returned
    writes,     \* the number of fs::write calls Config::new made
    dl_pc,      \* download_repo: the step it is at
    git,        \* whether the git binary can be run: "available" or "missing"
    download_path, \* the kind of path download_repo is given
    dest,       \* what is at the destination path: "absent", "dir" or "file"
    parent,     \* the destination's parent: "absent", "dir", or "none"
    dl_io,      \* what the file system and git clone do when asked
    steps,      \* the commands and file system calls download_repo made
    dl_ret,     \* what download_repo returned
    m_pc,       \* main: "start", "menu", "send", "await", "press_key", "exited"
    args,       \* the kind of command line the process was given
    gh_token,   \* GITHUB_TOKEN as main finds it
    menus,      \* how many times the interactive menu was shown
    m_key,      \* what term.read_key() yielded at the menu last, "" before
    flow,       \* the command or menu branch under way
    m_req,      \* the request about to be sent
    reqs,       \* the requests sent so far, each with its outcome
    m_response, \* what the server answered to the last request
    m_result,   \* what the last request function returned
    m_out,      \* what the last step printed on stdout
    m_err,      \* what was printed on stderr
    exit_code,  \* the exit status of the process, -1 while it runs
    m_ret,      \* what main returned
    sel_op,     \* the selector function called last, "idle" before a call
    sel_repos,  \* the list of values it was given
    prompted,   \* whether it showed its selection dialog
    sel_ret,    \* what select_repo returned
    sel_list    \* what select_multiple_repos returned

apiVars == <<op, response, result, sent, out, client, conf>>
cfgVars == <<cfg_pc, dir, file, env, io, ret, writes>>
dlVars == <<dl_pc, git, download_path, dest, parent, dl_io, steps, dl_ret>>
selVars == <<sel_op, sel_repos, prompted, sel_ret, sel_list>>
mainVars == <<m_pc, args, gh_token, menus, m_key, flow, m_req, reqs, m_response, m_result,
              m_out, m_err, exit_code, m_ret>>
vars == <<op, response, result, sent, out, client, conf,
          cfg_pc, dir, file, env, io, ret, writes,
          dl_pc, git, download_path, dest, parent, dl_io, steps, dl_ret,
          m_pc, args, gh_token, menus, m_key, flow, m_req, reqs, m_response, m_result,
          m_out, m_err, exit_code, m_ret,
          sel_op, sel_repos, prompted, sel_ret, sel_list>>

-----------------------------------------------------------------------------
(* Bounds of the model.                                                   *)

\* JSON numbers of a body range over -1..MaxNum.
MaxNum == 1
\* A JSON array body holds at most MaxLen elements.
MaxLen == 2

(* Status codes the code names.                                           *)
StatusOK == 200
StatusNoContent == 204
StatusNotFound == 404

\* The statuses a server answers with: the two successes the code names, a
\* success it does not name, and client and server errors.
Statuses == {StatusOK, 201, StatusNoContent, 401, StatusNotFound, 500}

Names == {"hello-world", "octocat"}

-----------------------------------------------------------------------------
(* JSON bodies. A member of a JSON object is absent, null, a number, or a *)
(* string; "owner" may also be an object with a "login" member.           *)

Absent == [k |-> "absent", n |-> 0, s |-> ""]
Null == [k |-> "null", n |-> 0, s |-> ""]
Num(i) == [k |-> "num", n |-> i, s |-> ""]
Str(t) == [k |-> "str", n |-> 0, s |-> t]

NumMembers == {Absent, Null, Str("1")} \cup {Num(i) : i \in -1..MaxNum}
StrMembers == {Absent, Null, Num(0)} \cup {Str(t) : t \in Names}

OwnerAbsent == [k |-> "absent", s |-> "", login |-> Absent]
OwnerStr(t) == [k |-> "str", s |-> t, login |-> Absent]
OwnerObj(l) == [k |-> "obj", s |-> "", login |-> l]

OwnerMembers == {OwnerAbsent, OwnerStr("octocat")} \cup {OwnerObj(l) : l \in StrMembers}

\* A JSON object as the repository endpoints return it: the members the
\* client reads, and whether it has further members the client does not know.
RepoObjects ==
    [id : NumMembers, name : StrMembers, owner : OwnerMembers,
     stargazers_count : {Absent} \cup {Num(i) : i \in -1..MaxNum},
     description : {Absent, Null, Str("My first repository")},
     html_url : {Absent, Str("https://github.com/octocat/hello-world")},
     extra : BOOLEAN]

EmptyObject ==
    [id |-> Absent, name |-> Absent, owner |-> OwnerAbsent, stargazers_count |-> Absent,
     description |-> Absent, html_url |-> Absent, extra |-> FALSE]

\* The objects of the documented shape (section 3's RepoSummary fields).
ValidObject(i, n, l, c, x) ==
    [id |-> Num(i), name |-> Str(n), owner |-> OwnerObj(Str(l)), stargazers_count |-> Num(c),
     description |-> Absent, html_url |-> Absent, extra |-> x]

\* The elements of an array body: valid objects and two malformed ones.
ArrayElements ==
    {ValidObject(i, n, "octocat", i, FALSE) : i \in 0..MaxNum, n \in Names}
    \cup {[ValidObject(0, "octocat", "octocat", 0, FALSE) EXCEPT !.name = Absent],
          [ValidObject(0, "octocat", "octocat", 0, FALSE) EXCEPT !.owner = OwnerStr("octocat")]}

ArraysOf(S) == UNION {[1..n -> S] : n \in 0..MaxLen}

\* A response body: text that is no JSON (k = "text"), a JSON object, a JSON
\* array, or a body whose transfer fails while it is read (k = "broken").
TextBody(t) == [k |-> "text", text |-> t, obj |-> EmptyObject, arr |-> <<>>]
ObjectBody(o) == [k |-> "obj", text |-> "", obj |-> o, arr |-> <<>>]
ArrayBody(a) == [k |-> "arr", text |-> "", obj |-> EmptyObject, arr |-> a]
BrokenBody == [k |-> "broken", text |-> "", obj |-> EmptyObject, arr |-> <<>>]

PlainBodies == {TextBody(""), TextBody("Not Found"), BrokenBody}

\* What send() yields: a transport failure, or a response.
TransportFailure == [kind |-> "failure", status |-> 0, body |-> TextBody("")]
Http(st, b) == [kind |-> "http", status |-> st, body |-> b]
Answers(bodies) == {TransportFailure} \cup {Http(st, b) : st \in Statuses, b \in bodies}

-----------------------------------------------------------------------------
(* Results and errors.                                                    *)

Unit == "()"
Ok(v) == [ok |-> TRUE, val |-> v]
Err(e) == [ok |-> FALSE, err |-> e]
NoResult == [ok |-> FALSE, err |-> [kind |-> "none"]]

\* send().await? on a transport failure: the reqwest error.
TransportError == [kind |-> "transport"]
\* response.json().await? on a body that does not deserialize.
DecodeError == [kind |-> "decode"]
\* "<msg>".into(), and format!("<msg>: {}", text).into()
ApiError(msg) == [kind |-> "api", msg |-> msg]
ApiErrorWith(msg, text) == [kind |-> "api", msg |-> msg, text |-> text]

\* response.text().await.unwrap_or_default(): the body as sent, or the empty
\* string when reading it fails.
text_unwrap_or_default(body) == IF body.k = "broken" THEN TextBody("") ELSE body


-----------------------------------------------------------------------------
(* serde's derived Deserialize of the response types (src/api/repos.rs).  *)
(* A deserializer yields Ok(value) or fails; a missing member, a member   *)
(* of the wrong JSON type and a negative number for a u64 all fail, and   *)
(* members the struct does not name are skipped.                          *)

Failed == [ok |-> FALSE]

\* u64: a JSON number that is a non-negative integer.
deserialize_u64(m) == IF m.k = "num" /\ m.n >= 0 THEN Ok(m.n) ELSE Failed

\* String: a JSON string, the empty one included.
deserialize_String(m) == IF m.k = "str" THEN Ok(m.s) ELSE Failed

\* Option<String>: an absent or null member is None, a string is Some.
None == [some |-> FALSE]
Some(v) == [some |-> TRUE, v |-> v]
deserialize_Option_String(m) ==
    IF m.k \in {"absent", "null"} THEN Ok(None)
    ELSE IF m.k = "str" THEN Ok(Some(m.s))
    ELSE Failed

\* A plausible slip: a bare string taken as the owner's login.
OwnerResponse_lenient(o) ==
    IF o.k = "str" THEN Ok([login |-> o.s])
    ELSE IF o.k = "obj" /\ deserialize_String(o.login).ok
         THEN Ok([login |-> deserialize_String(o.login).val])
         ELSE Failed

\* struct OwnerResponse { login: String }
OwnerResponse(o) ==
    IF o.k = "obj" /\ deserialize_String(o.login).ok
    THEN Ok([login |-> deserialize_String(o.login).val])
    ELSE Failed

\* A plausible slip: the star count read from the wrong member (no rename).
RepoResponse_unrenamed(o) ==
    LET id == deserialize_u64(o.id)
        name == deserialize_String(o.name)
        owner == OwnerResponse(o.owner)
        stars == deserialize_u64(o.id)
    IN  IF id.ok /\ name.ok /\ owner.ok /\ stars.ok
        THEN Ok([id |-> id.val, name |-> name.val, owner |-> owner.val, stars |-> stars.val])
        ELSE Failed

\* struct RepoResponse { id: u64, name: String, owner: OwnerResponse,
\*                       #[serde(rename = "stargazers_count")] stars: u64 }
RepoResponse(o) ==
    LET id == deserialize_u64(o.id)
        name == deserialize_String(o.name)
        owner == OwnerResponse(o.owner)
        stars == deserialize_u64(o.stargazers_count)
    IN  IF id.ok /\ name.ok /\ owner.ok /\ stars.ok
        THEN Ok([id |-> id.val, name |-> name.val, owner |-> owner.val, stars |-> stars.val])
        ELSE Failed

\* struct RepoDetailsResponse: RepoResponse's fields, description:
\* Option<String> and html_url: String.
RepoDetailsResponse(o) ==
    LET id == deserialize_u64(o.id)
        name == deserialize_String(o.name)
        owner == OwnerResponse(o.owner)
        stars == deserialize_u64(o.stargazers_count)
        description == deserialize_Option_String(o.description)
        html_url == deserialize_String(o.html_url)
    IN  IF id.ok /\ name.ok /\ owner.ok /\ stars.ok /\ description.ok /\ html_url.ok
        THEN Ok([id |-> id.val, name |-> name.val, owner |-> owner.val, stars |-> stars.val,
                 description |-> description.val, html_url |-> html_url.val])
        ELSE Failed

\* A plausible slip: each element put in front of those before it.
RECURSIVE Vec_RepoResponse_reversed(_, _)
Vec_RepoResponse_reversed(a, acc) ==
    IF a = <<>> THEN Ok(acc)
    ELSE LET e == RepoResponse(Head(a))
         IN  IF e.ok THEN Vec_RepoResponse_reversed(Tail(a), <<e.val>> \o acc) ELSE Failed

\* Vec<RepoResponse>: the elements of the array in order, each pushed onto
\* the vector (acc); the first element that fails fails the whole.
RECURSIVE Vec_RepoResponse(_, _)
Vec_RepoResponse(a, acc) ==
    IF a = <<>> THEN Ok(acc)
    ELSE LET e == RepoResponse(Head(a))
         IN  IF e.ok THEN Vec_RepoResponse(Tail(a), Append(acc, e.val)) ELSE Failed

\* response.json::<T>(): the body must be read, be JSON, and deserialize.
json_RepoResponse(body) == IF body.k = "obj" THEN RepoResponse(body.obj) ELSE Failed
json_RepoDetailsResponse(body) == IF body.k = "obj" THEN RepoDetailsResponse(body.obj) ELSE Failed
json_Vec_RepoResponse(body) == IF body.k = "arr" THEN Vec_RepoResponse(body.arr, <<>>) ELSE Failed

-----------------------------------------------------------------------------
(* What each endpoint operation returns for what send() yielded.          *)

\* A plausible slip: any 2xx accepted (status().is_success()).
get_repo_any_success(resp) ==
    IF resp.kind = "failure" THEN Err(TransportError)
    ELSE IF resp.status \in 200..299
    THEN LET r == json_RepoResponse(resp.body)
         IN  IF r.ok THEN Ok(r.val) ELSE Err(DecodeError)
    ELSE Err(ApiError("Failed to fetch repository"))

get_repo_returns(resp) ==
    IF resp.kind = "failure" THEN Err(TransportError)
    ELSE IF resp.status = StatusOK
    THEN LET r == json_RepoResponse(resp.body)
         IN  IF r.ok THEN Ok(r.val) ELSE Err(DecodeError)
    ELSE Err(ApiError("Failed to fetch repository"))

list_repos_returns(resp) ==
    IF resp.kind = "failure" THEN Err(TransportError)
    ELSE IF resp.status = StatusOK
    THEN LET r == json_Vec_RepoResponse(resp.body)
         IN  IF r.ok THEN Ok(r.val) ELSE Err(DecodeError)
    ELSE Err(ApiError("Failed to list repositories"))

get_repo_details_returns(resp) ==
    IF resp.kind = "failure" THEN Err(TransportError)
    ELSE IF resp.status = StatusOK
    THEN LET r == json_RepoDetailsResponse(resp.body)
         IN  IF r.ok THEN Ok(r.val) ELSE Err(DecodeError)
    ELSE Err(ApiError("Failed to fetch repository details"))

star_repo_returns(resp) ==
    IF resp.kind = "failure" THEN Err(TransportError)
    ELSE IF resp.status = StatusNoContent THEN Ok(Unit)
    ELSE IF resp.status = StatusOK THEN Ok(Unit)
    ELSE Err(ApiErrorWith("Failed to star repository: ", text_unwrap_or_default(resp.body)))

unstar_repo_returns(resp) ==
    IF resp.kind = "failure" THEN Err(TransportError)
    ELSE IF resp.status = StatusNoContent THEN Ok(Unit)
    ELSE IF resp.status = StatusOK THEN Ok(Unit)
    ELSE Err(ApiErrorWith("Failed to unstar repository: ", text_unwrap_or_default(resp.body)))

\* A plausible slip: 200 taken as "starred" too, as star_repo takes it as success.
is_starred_ok_too(resp) ==
    IF resp.kind = "failure" THEN Err(TransportError)
    ELSE IF resp.status = StatusNoContent THEN Ok(TRUE)
    ELSE IF resp.status = StatusOK THEN Ok(TRUE)
    ELSE IF resp.status = StatusNotFound THEN Ok(FALSE)
    ELSE Err(ApiErrorWith("Failed to check starred status: ", text_unwrap_or_default(resp.body)))

is_starred_returns(resp) ==
    IF resp.kind = "failure" THEN Err(TransportError)
    ELSE IF resp.status = StatusNoContent THEN Ok(TRUE)
    ELSE IF resp.status = StatusNotFound THEN Ok(FALSE)
    ELSE Err(ApiErrorWith("Failed to check starred status: ", text_unwrap_or_default(resp.body)))

\* src/main.rs: client.put(url).send().await?; Ok(()) -- the status is not read.
main_star_repo_returns(resp) ==
    IF resp.kind = "failure" THEN Err(TransportError) ELSE Ok(Unit)

\* src/main.rs: client.delete(url).send().await?; Ok(())
main_unstar_repo_returns(resp) ==
    IF resp.kind = "failure" THEN Err(TransportError) ELSE Ok(Unit)

-----------------------------------------------------------------------------
(* The endpoint operations as steps: one call, from the idle client, of   *)
(* one operation, which sends its request, takes what send() yields and   *)
(* returns. Return forgets the call: the client keeps no state.           *)

Request(method, path) == [method |-> method, path |-> path]
NoResponse == [kind |-> "none", status |-> 0, body |-> TextBody("")]

\* struct GitHubClient { client, api_url, token }: the transport handle
\* holds no state of its own.
GitHubClient(api_url, token) == [api_url |-> api_url, token |-> token]
NoClient == GitHubClient("", "")
\* No configuration at hand.
NoConfig == [github |-> [token |-> "", email |-> "", api_url |-> ""]]

\* The bodies a repository endpoint may answer with, whatever the status.
ObjectAnswers == Answers(PlainBodies \cup {ObjectBody(o) : o \in RepoObjects})
ArrayAnswers ==
    Answers(PlainBodies \cup {ObjectBody(ValidObject(0, "octocat", "octocat", 0, FALSE))}
            \cup {ArrayBody(a) : a \in ArraysOf(ArrayElements)})
\* The starring endpoints answer with no body, with an error document, or
\* with a text that repeats the bearer token the request presented.
StarAnswers ==
    Answers(PlainBodies \cup {ObjectBody([EmptyObject EXCEPT !.extra = TRUE])}
            \cup {TextBody(client.token)})

\* A plausible slip: the request is sent again when the first attempt fails.
Call_retrying(name, request, resp, returned, printed) ==
    /\ op' = name
    /\ sent' = IF returned.ok THEN <<request>> ELSE <<request, request>>
    /\ response' = resp
    /\ result' = returned
    /\ out' = printed
    /\ UNCHANGED <<client, conf>>
    /\ UNCHANGED cfgVars
    /\ UNCHANGED dlVars
    /\ UNCHANGED mainVars
    /\ UNCHANGED selVars

\* One call of an operation: the request it sends, the answer it gets,
\* what it returns and what it prints.
Call(name, request, resp, returned, printed) ==
    /\ op' = name
    /\ sent' = <<request>>
    /\ response' = resp
    /\ result' = returned
    /\ out' = printed
    /\ UNCHANGED <<client, conf>>
    /\ UNCHANGED cfgVars
    /\ UNCHANGED dlVars
    /\ UNCHANGED mainVars
    /\ UNCHANGED selVars

get_repo ==
    /\ op = "idle"
    /\ \E resp \in ObjectAnswers :
           Call("get_repo", Request("GET", "/repos/{owner}/{repo}"), resp,
                get_repo_returns(resp), <<>>)

list_repos ==
    /\ op = "idle"
    /\ \E resp \in ArrayAnswers :
           Call("list_repos", Request("GET", "/user/starred"), resp,
                list_repos_returns(resp), <<>>)

get_repo_details ==
    /\ op = "idle"
    /\ \E resp \in ObjectAnswers :
           Call("get_repo_details", Request("GET", "/repos/{owner}/{repo}"), resp,
                get_repo_details_returns(resp), <<>>)

star_repo ==
    /\ op = "idle"
    /\ \E resp \in StarAnswers :
           Call("star_repo", Request("PUT", "/user/starred/{owner}/{repo}"), resp,
                star_repo_returns(resp), <<>>)

unstar_repo ==
    /\ op = "idle"
    /\ \E resp \in StarAnswers :
           Call("unstar_repo", Request("DELETE", "/user/starred/{owner}/{repo}"), resp,
                unstar_repo_returns(resp), <<>>)

is_starred ==
    /\ op = "idle"
    /\ \E resp \in StarAnswers :
           Call("is_starred", Request("GET", "/user/starred/{owner}/{repo}"), resp,
                is_starred_returns(resp), <<>>)

\* src/main.rs, the star command: star_repo(&client, owner, repo).await?;
\* println!("Starred repository {}/{}", owner, repo);
main_star ==
    /\ op = "idle"
    /\ \E resp \in StarAnswers :
           LET r == main_star_repo_returns(resp)
           IN  Call("main_star", Request("PUT", "/user/starred/{owner}/{repo}"), resp, r,
                    IF r.ok THEN <<"Starred repository">> ELSE <<>>)

\* src/main.rs, the unstar command.
main_unstar ==
    /\ op = "idle"
    /\ \E resp \in StarAnswers :
           LET r == main_unstar_repo_returns(resp)
           IN  Call("main_unstar", Request("DELETE", "/user/starred/{owner}/{repo}"), resp, r,
                    IF r.ok THEN <<"Unstarred repository">> ELSE <<>>)

Return ==
    /\ op # "idle"
    /\ op' = "idle"
    /\ sent' = <<>>
    /\ response' = NoResponse
    /\ result' = NoResult
    /\ out' = <<>>
    /\ conf' = NoConfig
    /\ UNCHANGED client
    /\ UNCHANGED cfgVars
    /\ UNCHANGED dlVars
    /\ UNCHANGED mainVars
    /\ UNCHANGED selVars

ApiIdle ==
    /\ op = "idle"
    /\ sent = <<>>
    /\ response = NoResponse
    /\ result = NoResult
    /\ out = <<>>
    /\ conf = NoConfig

-----------------------------------------------------------------------------
(* Configuration resolution (src/config/config.rs).                       *)

\* struct Config { github: GithubConfig { token, email, api_url } }
Config(token, email, api_url) ==
    [github |-> [token |-> token, email |-> email, api_url |-> api_url]]

DefaultApiUrl == "https://api.github.com"

\* GITHUB_TOKEN: unset, or set to a value (which may be empty).
Unset == [set |-> FALSE, v |-> ""]
Set(v) == [set |-> TRUE, v |-> v]
EnvValues == {Unset, Set(""), Set("abc")}

\* A TOML document: whether it has a [github] table, and that table's
\* members (absent, a string, or an integer).
TomlDocs ==
    [github : BOOLEAN,
     token : {Absent, Str(""), Str("existing_token")},
     email : {Absent, Str(""), Str("test@example.com")},
     api_url : {Absent, Num(0), Str(""), Str(DefaultApiUrl), Str("https://test-api.github.com")}]

EmptyDoc == [github |-> FALSE, token |-> Absent, email |-> Absent, api_url |-> Absent]

\* The config file: missing, present but not readable as text (exists() is
\* true and read_to_string fails), present with text that is no TOML, or
\* present with a TOML document.
Missing == [k |-> "missing", doc |-> EmptyDoc]
Unreadable == [k |-> "unreadable", doc |-> EmptyDoc]
Garbage == [k |-> "garbage", doc |-> EmptyDoc]
Toml(d) == [k |-> "toml", doc |-> d]
Files ==
    {Missing, Unreadable, Garbage}
    \cup {Toml(d) : d \in {x \in TomlDocs : x.github} \cup {EmptyDoc}}

\* What the file system allows: create_dir_all succeeds or fails; fs::write
\* succeeds, fails to open the file, or fails after truncating it.
IoOutcomes == [mkdir : {"ok", "fails"}, write : {"ok", "open_fails", "write_fails"}]

Panicked == [ok |-> FALSE, err |-> [kind |-> "panic"]]
NoReturn == [ok |-> FALSE, err |-> [kind |-> "none"]]

\* A plausible slip: an empty member is left out of the document.
toml_to_string_skipping_empty(config) ==
    LET member(v) == IF v = "" THEN Absent ELSE Str(v)
    IN  [github |-> TRUE, token |-> member(config.github.token),
         email |-> member(config.github.email), api_url |-> member(config.github.api_url)]

\* toml::to_string(&config)
toml_to_string(config) ==
    [github |-> TRUE, token |-> Str(config.github.token), email |-> Str(config.github.email),
     api_url |-> Str(config.github.api_url)]

\* toml::de::from_str::<Config>(&contents): the [github] table and its three
\* string members are all required.
toml_from_str(f) ==
    LET token == deserialize_String(f.doc.token)
        email == deserialize_String(f.doc.email)
        api_url == deserialize_String(f.doc.api_url)
    IN  IF f.k = "toml" /\ f.doc.github /\ token.ok /\ email.ok /\ api_url.ok
        THEN Ok(Config(token.val, email.val, api_url.val))
        ELSE Err([kind |-> "toml"])

load_from_file(d, f) ==
    IF d = "none" THEN Err(ApiError("Unable to find config directory"))
    ELSE IF f.k # "missing"
    THEN IF f.k = "unreadable" THEN Panicked ELSE toml_from_str(f)
    ELSE Err(ApiError("Config file not found"))

\* create_default_config: what it returns, the file it leaves and the
\* number of fs::write calls it made.
create_default_config(d, f, e, i) ==
    LET token == IF e.set THEN e.v ELSE ""
        config == Config(token, "", DefaultApiUrl)
    IN  IF d = "some"
        THEN IF i.mkdir = "fails"
             THEN [ret |-> Err([kind |-> "io"]), file |-> f, writes |-> 0]
             ELSE IF i.write = "ok"
             THEN [ret |-> Ok(config), file |-> Toml(toml_to_string(config)), writes |-> 1]
             ELSE IF i.write = "open_fails"
             THEN [ret |-> Err([kind |-> "io"]), file |-> f, writes |-> 1]
             ELSE [ret |-> Err([kind |-> "io"]), file |-> Garbage, writes |-> 1]
        ELSE [ret |-> Ok(config), file |-> f, writes |-> 0]

\* A plausible slip: the environment's token wins over the file's.
overlay_env_first(config, e) ==
    IF e.set THEN [config EXCEPT !.github.token = e.v] ELSE config

\* Config::new, the Ok(config) arm: an empty token is replaced by
\* GITHUB_TOKEN when that is set.
overlay(config, e) ==
    IF config.github.token = ""
    THEN IF e.set THEN [config EXCEPT !.github.token = e.v] ELSE config
    ELSE config

\* A plausible slip: the overlaid configuration is saved back.
Config_new_saving(d, f, e, i) ==
    LET loaded == load_from_file(d, f)
    IN  IF loaded = Panicked THEN [ret |-> Panicked, file |-> f, writes |-> 0]
        ELSE IF loaded.ok
        THEN [ret |-> Ok(overlay(loaded.val, e)),
              file |-> Toml(toml_to_string(overlay(loaded.val, e))), writes |-> 1]
        ELSE create_default_config(d, f, e, i)

\* Config::new: what it returns, the file it leaves and the number of
\* fs::write calls it made.
Config_new_returns(d, f, e, i) ==
    LET loaded == load_from_file(d, f)
    IN  IF loaded = Panicked THEN [ret |-> Panicked, file |-> f, writes |-> 0]
        ELSE IF loaded.ok
        THEN [ret |-> Ok(overlay(loaded.val, e)), file |-> f, writes |-> 0]
        ELSE create_default_config(d, f, e, i)

Config_new ==
    /\ cfg_pc = "start"
    /\ LET r == Config_new_returns(dir, file, env, io)
       IN  /\ ret' = r.ret
           /\ file' = r.file
           /\ writes' = r.writes
    /\ cfg_pc' = "done"
    /\ UNCHANGED <<dir, env, io>>
    /\ UNCHANGED apiVars
    /\ UNCHANGED dlVars
    /\ UNCHANGED mainVars
    /\ UNCHANGED selVars

\* Config::new keeps nothing between calls: the next call (each
\* validate_github_config makes one) finds the file the last one left.
NextInvocation ==
    /\ cfg_pc = "done"
    /\ cfg_pc' = "start"
    /\ ret' = NoReturn
    /\ writes' = 0
    /\ UNCHANGED <<dir, file, env, io>>
    /\ UNCHANGED apiVars
    /\ UNCHANGED dlVars
    /\ UNCHANGED mainVars
    /\ UNCHANGED selVars

CfgIdle ==
    /\ cfg_pc = "start"
    /\ dir = "some"
    /\ file = Missing
    /\ env = Unset
    /\ io = [mkdir |-> "ok", write |-> "ok"]
    /\ ret = NoReturn
    /\ writes = 0

-----------------------------------------------------------------------------
(* Construction and validation of a client (src/api/client.rs).           *)

\* The configurations a constructor may be given.
Configs == {Config(t, "", u) : t \in {"", "test_token"}, u \in {"", DefaultApiUrl}}

\* What GET {api_url}/user may be answered with: the statuses of the other
\* endpoints and the two around the upper end of 2xx.
AuthAnswers ==
    {TransportFailure} \cup {Http(st, b) : st \in Statuses \cup {299, 300}, b \in PlainBodies}

UserRequest == Request("GET", "/user")

\* A plausible slip: only 200 taken as success.
validate_auth_only_200(resp) ==
    IF resp.kind = "failure" THEN Err(TransportError)
    ELSE Ok(resp.status = StatusOK)

\* validate_auth: Ok(response.status().is_success())
validate_auth_returns(resp) ==
    IF resp.kind = "failure" THEN Err(TransportError)
    ELSE Ok(resp.status \in 200..299)

\* A plausible slip: the token is not checked.
from_config_unchecked_token(c) ==
    IF c.github.api_url = "" THEN Err(ApiError("API URL is empty"))
    ELSE Ok(GitHubClient(c.github.api_url, c.github.token))

from_config_returns(c) ==
    IF c.github.api_url = "" THEN Err(ApiError("API URL is empty"))
    ELSE IF c.github.token = "" THEN Err(ApiError("GitHub API token is empty"))
    ELSE Ok(GitHubClient(c.github.api_url, c.github.token))

\* new_validated: what it returns when validate_auth's request is answered
\* with resp, and the requests it sends.
new_validated_returns(c, resp) ==
    LET made == from_config_returns(c)
        valid == validate_auth_returns(resp)
    IN  IF ~made.ok THEN made
        ELSE IF ~valid.ok THEN valid
        ELSE IF ~valid.val THEN Err(ApiError("Invalid GitHub API token"))
        ELSE made

new_validated_sends(c) == IF from_config_returns(c).ok THEN <<UserRequest>> ELSE <<>>

\* validate_github_config, given what Config::new() returned (got): what it
\* returns, the requests it sends and the lines it prints.
validate_github_config_sends(got) ==
    IF got.ok /\ ~(got.val.github.api_url = "" \/ got.val.github.token = "")
    THEN <<UserRequest>>
    ELSE <<>>

validate_github_config_returns(got, resp) ==
    LET valid == validate_auth_returns(resp)
    IN  IF ~got.ok THEN got
        ELSE IF got.val.github.api_url = "" \/ got.val.github.token = ""
        THEN Err(ApiError("GitHub configuration is incomplete"))
        ELSE IF ~valid.ok THEN valid
        ELSE IF valid.val THEN Ok(Unit)
        ELSE Err(ApiError("Invalid GitHub API token"))

validate_github_config_prints(got, resp) ==
    LET valid == validate_auth_returns(resp)
    IN  IF validate_github_config_sends(got) = <<>> THEN <<>>
        ELSE IF ~valid.ok THEN <<"Error validating GitHub API token: {}">>
        ELSE IF valid.val THEN <<"GitHub API authentication successful">>
        ELSE <<"GitHub API authentication failed">>

\* validate_auth, called on a client.
validate_auth ==
    /\ op = "idle"
    /\ \E resp \in AuthAnswers :
           Call("validate_auth", UserRequest, resp, validate_auth_returns(resp), <<>>)

from_config ==
    /\ op = "idle"
    /\ \E c \in Configs :
           /\ op' = "from_config"
           /\ conf' = c
           /\ sent' = <<>>
           /\ response' = NoResponse
           /\ result' = from_config_returns(c)
    /\ UNCHANGED <<out, client>>
    /\ UNCHANGED cfgVars
    /\ UNCHANGED dlVars
    /\ UNCHANGED mainVars
    /\ UNCHANGED selVars

new_validated ==
    /\ op = "idle"
    /\ \E c \in Configs, resp \in AuthAnswers :
           /\ op' = "new_validated"
           /\ conf' = c
           /\ sent' = new_validated_sends(c)
           /\ response' = IF new_validated_sends(c) = <<>> THEN NoResponse ELSE resp
           /\ result' = new_validated_returns(c, resp)
    /\ UNCHANGED <<out, client>>
    /\ UNCHANGED cfgVars
    /\ UNCHANGED dlVars
    /\ UNCHANGED mainVars
    /\ UNCHANGED selVars

\* validate_github_config: Config::new() on the directory, file and
\* environment at hand, then the checks and the request.
validate_github_config ==
    /\ op = "idle"
    /\ cfg_pc = "start"
    /\ LET r == Config_new_returns(dir, file, env, io)
       IN  /\ ret' = r.ret
           /\ file' = r.file
           /\ writes' = r.writes
           /\ cfg_pc' = "done"
           /\ conf' = IF r.ret.ok THEN r.ret.val ELSE NoConfig
           /\ \E resp \in AuthAnswers :
                  /\ op' = "validate_github_config"
                  /\ sent' = validate_github_config_sends(r.ret)
                  /\ response' = IF validate_github_config_sends(r.ret) = <<>>
                                 THEN NoResponse ELSE resp
                  /\ result' = validate_github_config_returns(r.ret, resp)
                  /\ out' = validate_github_config_prints(r.ret, resp)
    /\ UNCHANGED <<dir, env, io, client>>
    /\ UNCHANGED dlVars
    /\ UNCHANGED mainVars
    /\ UNCHANGED selVars

-----------------------------------------------------------------------------
(* download_repo (src/api/repos.rs), one step at a time.                  *)

\* The path argument: None (the default, <current dir>/<owner>-<repo>), a
\* path with a directory component, a bare relative name (whose parent() is
\* the empty path), or a path with no parent() at all (the empty path).
PathKinds == {"default", "nested", "bare", "empty"}

\* download_path.to_string_lossy().to_string()
download_location(pa) ==
    IF pa = "default" THEN "{cwd}/{owner}-{repo}"
    ELSE IF pa = "nested" THEN "{dir}/{name}"
    ELSE IF pa = "bare" THEN "{name}"
    ELSE ""

ExitCodes == {0, 1, 128}
StderrTexts == {"", "fatal: repository not found"}

\* What the environment does when asked: current_dir(), remove_dir_all of
\* a directory, create_dir_all, spawning git clone, and its exit code and
\* stderr.
DlIoOutcomes ==
    [cwd : {"ok", "fails"}, remove : {"ok", "fails"}, mkdir : {"ok", "fails"},
     spawn : {"ok", "fails"}, exit : ExitCodes, stderr : StderrTexts]

NotDownloaded == [ok |-> FALSE, err |-> [kind |-> "none"]]
IoError == [kind |-> "io"]

\* A plausible slip: the outcome of `git --version` is not looked at.
git_version_is_err_ignored(g) == FALSE

\* Command::new("git").arg("--version").output().is_err(): the command
\* could not be run.
git_version_is_err(g) == g = "missing"

\* A plausible slip: nothing is taken to exist.
exists_never(entry) == FALSE

\* Path::exists() on an entry of the file system.
exists(entry) == entry = "dir" \/ entry = "file"

\* parent.exists(): the parent of a bare name is the empty path, for which
\* exists() is false.
parent_exists(pa, par) == IF pa = "bare" THEN FALSE ELSE exists(par)

\* fs::remove_dir_all(&download_path): fails on what is not a directory.
remove_dir_all(entry, i) == IF entry = "file" THEN "fails" ELSE i.remove

\* fs::create_dir_all(parent): the empty path is created without a call
\* to the file system.
create_dir_all(pa, i) == IF pa = "bare" THEN "ok" ELSE i.mkdir

\* git clone's exit code: it cannot clone into the empty path.
clone_exit(pa, i) == IF pa = "empty" /\ i.exit = 0 THEN 128 ELSE i.exit

DlDone(r) == dl_pc' = "done" /\ dl_ret' = r

\* Lines 94-109: the path is resolved, then `git --version` is run.
download_repo_check_git ==
    /\ dl_pc = "start"
    /\ IF download_path = "default" /\ dl_io.cwd = "fails"
       THEN DlDone(Err(IoError)) /\ UNCHANGED steps
       ELSE /\ steps' = Append(steps, "git --version")
            /\ IF git_version_is_err(git)
               THEN DlDone(Err(ApiError("Git is not installed or not available in PATH")))
               ELSE dl_pc' = "checked" /\ UNCHANGED dl_ret
    /\ UNCHANGED <<git, download_path, dest, parent, dl_io>>
    /\ UNCHANGED <<apiVars, cfgVars, mainVars, selVars>>

\* Lines 112-114: an existing destination is removed.
download_repo_remove_existing ==
    /\ dl_pc = "checked"
    /\ IF exists(dest)
       THEN /\ steps' = Append(steps, "remove_dir_all")
            /\ IF remove_dir_all(dest, dl_io) = "ok"
               THEN dest' = "absent" /\ dl_pc' = "cleared" /\ UNCHANGED dl_ret
               ELSE DlDone(Err(IoError)) /\ UNCHANGED dest
       ELSE dl_pc' = "cleared" /\ UNCHANGED <<steps, dest, dl_ret>>
    /\ UNCHANGED <<git, download_path, parent, dl_io>>
    /\ UNCHANGED <<apiVars, cfgVars, mainVars, selVars>>

\* Lines 117-121: a missing parent is created.
download_repo_create_parent ==
    /\ dl_pc = "cleared"
    /\ IF download_path # "empty" /\ ~parent_exists(download_path, parent)
       THEN /\ steps' = Append(steps, "create_dir_all")
            /\ IF create_dir_all(download_path, dl_io) = "ok"
               THEN parent' = "dir" /\ dl_pc' = "prepared" /\ UNCHANGED dl_ret
               ELSE DlDone(Err(IoError)) /\ UNCHANGED parent
       ELSE dl_pc' = "prepared" /\ UNCHANGED <<steps, parent, dl_ret>>
    /\ UNCHANGED <<git, download_path, dest, dl_io>>
    /\ UNCHANGED <<apiVars, cfgVars, mainVars, selVars>>

\* Lines 124-138: git clone is run and its outcome returned.
download_repo_clone ==
    /\ dl_pc = "prepared"
    /\ steps' = Append(steps, "git clone")
    /\ IF git = "missing" \/ dl_io.spawn = "fails"
       THEN DlDone(Err(IoError)) /\ UNCHANGED dest
       ELSE IF clone_exit(download_path, dl_io) # 0
       THEN /\ DlDone(Err(ApiErrorWith("Failed to clone repository: ", dl_io.stderr)))
            /\ UNCHANGED dest
       ELSE DlDone(Ok(download_location(download_path))) /\ dest' = "dir"
    /\ UNCHANGED <<git, download_path, parent, dl_io>>
    /\ UNCHANGED <<apiVars, cfgVars, mainVars, selVars>>

DlIdle ==
    /\ dl_pc = "start"
    /\ git = "available"
    /\ download_path = "default"
    /\ dest = "absent"
    /\ parent = "dir"
    /\ dl_io = [cwd |-> "ok", remove |-> "ok", mkdir |-> "ok", spawn |-> "ok",
                exit |-> 0, stderr |-> ""]
    /\ steps = <<>>
    /\ dl_ret = NotDownloaded

-----------------------------------------------------------------------------
(* The command line (src/main.rs): main, its request functions and the    *)
(* interactive menu, with the selector of src/ui/selector.rs.             *)

\* The menu of interactive_mode is shown at most MaxMenus times in a run.
MaxMenus == 2

\* std::env::args() beyond the program name: nothing, --interactive, one of
\* the five commands with its arguments, arguments that name no command,
\* and arguments the parser rejects.
ArgKinds ==
    {"none", "interactive", "get", "list", "star", "unstar", "detail",
     "no_subcommand", "usage_error"}
Commands == {"get", "list", "star", "unstar", "detail"}

\* GITHUB_TOKEN as main reads it: unset, a token, or a value no header can
\* carry (one with a line break).
InvalidHeaderToken == "line{LF}break"
TokenEnv == {Unset, Set("test_token"), Set(InvalidHeaderToken)}

\* HeaderValue::from_str(&format!("token {}", github_token)).is_ok()
header_from_str_ok(t) == t # InvalidHeaderToken

\* A JSON object as GET /user/starred and GET /repos/{owner}/{repo} return
\* it, with the members main's Repo and the selector read.
StarredObject(n, d) ==
    [id |-> Num(1), name |-> Str(n), full_name |-> Str("octocat/hello-world"),
     owner |-> OwnerObj(Str("octocat")), description |-> d,
     html_url |-> Str("https://github.com/octocat/hello-world")]

\* A JSON object with none of those members, such as an error document.
ErrorDocument ==
    [id |-> Absent, name |-> Absent, full_name |-> Absent, owner |-> OwnerAbsent,
     description |-> Absent, html_url |-> Absent]

MainObjects ==
    {StarredObject(n, d) : n \in Names, d \in {Null, Str("My first repository")}}
    \cup {ErrorDocument, [StarredObject("hello-world", Null) EXCEPT !.full_name = Absent]}

JsonObject(o) == [k |-> "obj", obj |-> o, arr |-> <<>>]
JsonArray(a) == [k |-> "arr", obj |-> ErrorDocument, arr |-> a]
NotJson == [k |-> "text", obj |-> ErrorDocument, arr |-> <<>>]

MainBodies ==
    {NotJson} \cup {JsonObject(o) : o \in MainObjects}
    \cup {JsonArray(a) : a \in ArraysOf(MainObjects)}

MainStatuses == {StatusOK, 401, 500}
MainFailure == [kind |-> "failure", status |-> 0, body |-> NotJson]
NoMainResponse == [kind |-> "none", status |-> 0, body |-> NotJson]
MainAnswers == {MainFailure} \cup {Http(st, b) : st \in MainStatuses, b \in MainBodies}

\* struct Repo { id: u64, name: String, full_name: String,
\*               description: Option<String>, html_url: String }
Repo(o) ==
    LET id == deserialize_u64(o.id)
        name == deserialize_String(o.name)
        full_name == deserialize_String(o.full_name)
        description == deserialize_Option_String(o.description)
        html_url == deserialize_String(o.html_url)
    IN  IF id.ok /\ name.ok /\ full_name.ok /\ description.ok /\ html_url.ok
        THEN Ok([id |-> id.val, name |-> name.val, full_name |-> full_name.val,
                 description |-> description.val, html_url |-> html_url.val])
        ELSE Failed

RECURSIVE Vec_Repo(_)
Vec_Repo(a) ==
    IF a = <<>> THEN Ok(<<>>)
    ELSE LET first == Repo(Head(a))
             rest == Vec_Repo(Tail(a))
         IN  IF first.ok /\ rest.ok THEN Ok(<<first.val>> \o rest.val) ELSE Failed

\* get_repo (main.rs 21-25): send().await?.json::<Repo>().await? -- the
\* status is not read.
main_get_repo_returns(resp) ==
    IF resp.kind = "failure" THEN Err(TransportError)
    ELSE IF resp.body.k = "obj" /\ Repo(resp.body.obj).ok
    THEN Ok(Repo(resp.body.obj).val)
    ELSE Err(DecodeError)

\* list_repos (main.rs 27-31)
main_list_repos_returns(resp) ==
    IF resp.kind = "failure" THEN Err(TransportError)
    ELSE IF resp.body.k = "arr" /\ Vec_Repo(resp.body.arr).ok
    THEN Ok(Vec_Repo(resp.body.arr).val)
    ELSE Err(DecodeError)

\* serde_json::to_value(repo): the five members of Repo, and no other.
to_value(repo) ==
    [id |-> Num(repo.id), name |-> Str(repo.name), full_name |-> Str(repo.full_name),
     owner |-> OwnerAbsent,
     description |-> IF repo.description.some THEN Str(repo.description.v) ELSE Null,
     html_url |-> Str(repo.html_url)]

convert_repos_to_values(repos) == [i \in 1..Len(repos) |-> to_value(repos[i])]

\* RepoDisplayItem::from_repo: id, name, owner.login and html_url are
\* required, each of its type.
from_repo(v) ==
    IF /\ v.id.k = "num" /\ v.id.n >= 0
       /\ v.name.k = "str"
       /\ v.owner.k = "obj" /\ v.owner.login.k = "str"
       /\ v.html_url.k = "str"
    THEN Some(v)
    ELSE None

\* A plausible slip: the index picked is looked up in the input list.
select_repo_unfiltered(repos, choice) ==
    IF repos = <<>> THEN None
    ELSE LET display_items == SelectSeq(repos, LAMBDA v : from_repo(v).some)
         IN  IF display_items = <<>> THEN None
             ELSE IF choice \in 1..Len(display_items) THEN Some(repos[choice])
             ELSE None

\* RepoSelector::select_repo; choice is what the user does at the prompt:
\* the number of the item picked, or 0 for none.
select_repo(repos, choice) ==
    IF repos = <<>> THEN None
    ELSE LET display_items == SelectSeq(repos, LAMBDA v : from_repo(v).some)
         IN  IF display_items = <<>> THEN None
             ELSE IF choice \in 1..Len(display_items) THEN Some(display_items[choice])
             ELSE None

\* What select_repo prints: one of its two refusals, or the prompt of the
\* dialog that offers the items.
selector_prints(repos) ==
    IF repos = <<>> THEN <<"No repositories to display.">>
    ELSE IF SelectSeq(repos, LAMBDA v : from_repo(v).some) = <<>>
    THEN <<"Failed to parse repository data.">>
    ELSE <<"Select a repository">>

\* selected.get("owner").and_then(|o| o.get("login")).and_then(|l| l.as_str())
\*     .unwrap_or("unknown")
owner_val(selected) ==
    IF selected.owner.k = "obj" /\ selected.owner.login.k = "str"
    THEN selected.owner.login.s
    ELSE "unknown"

repo_name_val(selected) == IF selected.name.k = "str" THEN selected.name.s ELSE "unknown"

\* The requests of main.rs, by method and path segments.
NoRequest == Request("", <<>>)
ListRequest == Request("GET", <<"user", "starred">>)
RepoRequest(owner, repo) == Request("GET", <<"repos", owner, repo>>)
StarRequest(owner, repo) == Request("PUT", <<"user", "starred", owner, repo>>)
UnstarRequest(owner, repo) == Request("DELETE", <<"user", "starred", owner, repo>>)

\* The owner and repository given on the command line or typed at the
\* prompt.
OwnerArg == "octocat"
RepoArg == "hello-world"

CommandRequest(c) ==
    IF c = "list" THEN ListRequest
    ELSE IF c = "star" THEN StarRequest(OwnerArg, RepoArg)
    ELSE IF c = "unstar" THEN UnstarRequest(OwnerArg, RepoArg)
    ELSE RepoRequest(OwnerArg, RepoArg)

NotReturned == [ok |-> FALSE, err |-> [kind |-> "none"]]

\* The steps a run of main goes through.
InteractiveFlows ==
    {"i_list", "i_detail", "i_star", "i_unstar", "i_detail_followup", "i_unstar_followup"}

\* What the request function of flow f returns for the answer resp.
request_returns(f, resp) ==
    IF f \in {"get", "detail", "i_detail_followup"} THEN main_get_repo_returns(resp)
    ELSE IF f \in {"list", "i_list", "i_detail", "i_unstar"} THEN main_list_repos_returns(resp)
    ELSE IF f \in {"star", "i_star"} THEN main_star_repo_returns(resp)
    ELSE main_unstar_repo_returns(resp)

Step(pc, f, req, printed) == [pc |-> pc, flow |-> f, req |-> req, out |-> printed]

\* What follows a request that returned Ok(val) in flow f: a command prints
\* and main returns; the menu's branches print, or select a repository and
\* send the follow-up request, and wait for a key.
continuation(f, val, choice) ==
    IF f \in {"get", "list", "detail"} THEN Step("exited", f, NoRequest, <<"table">>)
    ELSE IF f = "star" THEN Step("exited", f, NoRequest, <<"Starred repository">>)
    ELSE IF f = "unstar" THEN Step("exited", f, NoRequest, <<"Unstarred repository">>)
    ELSE IF f = "i_star" THEN Step("press_key", f, NoRequest, <<"Starred repository">>)
    ELSE IF f = "i_detail_followup" THEN Step("press_key", f, NoRequest, <<"table">>)
    ELSE IF f = "i_unstar_followup"
    THEN Step("press_key", f, NoRequest, <<"Unstarred repository">>)
    ELSE LET repos_json == convert_repos_to_values(val)
             selected == select_repo(repos_json, choice)
             shown == selector_prints(repos_json)
         IN  IF ~selected.some
             THEN Step("press_key", f, NoRequest, shown)
             ELSE IF f = "i_list"
             THEN Step("press_key", f, NoRequest, shown \o <<"Selected repository:">>)
             ELSE IF f = "i_detail"
             THEN Step("send", "i_detail_followup",
                       RepoRequest(owner_val(selected.v), repo_name_val(selected.v)), shown)
             ELSE Step("send", "i_unstar_followup",
                       UnstarRequest(owner_val(selected.v), repo_name_val(selected.v)), shown)

\* A plausible slip: after a failed request the menu goes on.
try_next_continuing(r, next_pc) == IF r.ok THEN next_pc ELSE "press_key"

\* The ? operator: an Err returns from the function at once.
try_next(r, next_pc) == IF r.ok THEN next_pc ELSE "exited"

\* A plausible slip: the response is not awaited before going on.
answered_later(log, r) == log

\* .await on the request: its entry of the log gets its outcome.
answered(log, r) == [log EXCEPT ![Len(log)].outcome = IF r.ok THEN "ok" ELSE "err"]

\* The exit status of the process when main returns r.
exit_status(r) == IF r.ok THEN 0 ELSE 1

\* main returns r, after errs were written to stderr: an Err is printed
\* there too.
Exits(r, errs) ==
    /\ m_pc' = "exited"
    /\ m_ret' = r
    /\ exit_code' = exit_status(r)
    /\ m_err' = IF r.ok THEN errs ELSE Append(errs, "Error: {:?}")

Keys == {"1", "l", "2", "g", "3", "s", "4", "u", "q", "Escape", "x", "read_fails"}

\* main, lines 189-266 and 326-332: up to the first request, the menu, or
\* the exit.
main ==
    /\ m_pc = "start"
    /\ \E built \in BOOLEAN, usage_code \in {1, 2} :
           IF args = "none"
           THEN /\ Exits(Ok(Unit), m_err)
                /\ m_out' = <<"GitHub CLI Tool - Commands:">>
                /\ UNCHANGED <<flow, m_req>>
           ELSE IF ~gh_token.set
           THEN /\ Exits(Ok(Unit), <<"Error: GITHUB_TOKEN environment variable must be set">>)
                /\ UNCHANGED <<flow, m_req, m_out>>
           ELSE IF ~header_from_str_ok(gh_token.v)
           THEN Exits(Err([kind |-> "header"]), m_err) /\ UNCHANGED <<flow, m_req, m_out>>
           ELSE IF ~built
           THEN Exits(Err([kind |-> "builder"]), m_err) /\ UNCHANGED <<flow, m_req, m_out>>
           ELSE IF args = "usage_error"
           THEN /\ m_pc' = "exited"
                /\ exit_code' = usage_code
                /\ m_err' = <<"error: unexpected argument">>
                /\ UNCHANGED <<flow, m_req, m_out, m_ret>>
           ELSE IF args = "interactive"
           THEN m_pc' = "menu" /\ UNCHANGED <<flow, m_req, m_out, m_ret, exit_code, m_err>>
           ELSE IF args \in Commands
           THEN /\ m_pc' = "send"
                /\ flow' = args
                /\ m_req' = CommandRequest(args)
                /\ UNCHANGED <<m_out, m_ret, exit_code, m_err>>
           ELSE /\ Exits(Ok(Unit), m_err)
                /\ m_out' = <<"GitHub CLI Tool - Commands:">>
                /\ UNCHANGED <<flow, m_req>>
    /\ UNCHANGED <<args, gh_token, menus, m_key, reqs, m_response, m_result>>
    /\ UNCHANGED <<apiVars, cfgVars, dlVars, selVars>>

\* A plausible slip: a key the menu does not know ends the loop.
menu_key_quitting(key, line) ==
    IF key \in {"1", "l"} THEN Step("send", "i_list", ListRequest, <<>>)
    ELSE IF key \in {"2", "g"} THEN Step("send", "i_detail", ListRequest, <<>>)
    ELSE IF key \in {"3", "s"}
    THEN IF line = "ok"
         THEN Step("send", "i_star", StarRequest(OwnerArg, RepoArg), <<>>)
         ELSE Step("failed", "i_star", NoRequest, <<>>)
    ELSE IF key \in {"4", "u"} THEN Step("send", "i_unstar", ListRequest, <<>>)
    ELSE IF key = "read_fails" THEN Step("failed", "menu", NoRequest, <<>>)
    ELSE Step("exited", "menu", NoRequest, <<"Exiting interactive mode.">>)

\* What the menu does with the key read (lines 98-183), given whether the
\* two lines of the star prompt can be read.
menu_key(key, line) ==
    IF key \in {"1", "l"} THEN Step("send", "i_list", ListRequest, <<>>)
    ELSE IF key \in {"2", "g"} THEN Step("send", "i_detail", ListRequest, <<>>)
    ELSE IF key \in {"3", "s"}
    THEN IF line = "ok"
         THEN Step("send", "i_star", StarRequest(OwnerArg, RepoArg), <<>>)
         ELSE Step("failed", "i_star", NoRequest, <<>>)
    ELSE IF key \in {"4", "u"} THEN Step("send", "i_unstar", ListRequest, <<>>)
    ELSE IF key \in {"q", "Escape"}
    THEN Step("exited", "menu", NoRequest, <<"Exiting interactive mode.">>)
    ELSE IF key = "read_fails" THEN Step("failed", "menu", NoRequest, <<>>)
    ELSE Step("press_key", "menu", NoRequest, <<"Invalid input, please try again.">>)

\* interactive_mode, one turn of the loop up to the branch's first request:
\* the screen is cleared, the menu printed and a key read.
interactive_mode ==
    /\ m_pc = "menu"
    /\ menus < MaxMenus
    /\ \E screen \in {"ok", "fails"}, key \in Keys, line \in {"ok", "fails"} :
           LET next == menu_key(key, line)
           IN  IF screen = "fails"
               THEN /\ Exits(Err(IoError), m_err)
                    /\ UNCHANGED <<menus, m_key, flow, m_req, m_out>>
               ELSE /\ menus' = menus + 1
                    /\ m_key' = key
                    /\ flow' = next.flow
                    /\ m_req' = next.req
                    /\ m_out' = next.out
                    /\ IF next.pc = "failed" THEN Exits(Err(IoError), m_err)
                       ELSE IF next.pc = "exited" THEN Exits(Ok(Unit), m_err)
                       ELSE m_pc' = next.pc /\ UNCHANGED <<m_ret, exit_code, m_err>>
    /\ m_response' = NoMainResponse
    /\ m_result' = NotReturned
    /\ UNCHANGED <<args, gh_token, reqs>>
    /\ UNCHANGED <<apiVars, cfgVars, dlVars, selVars>>

\* client.get(url).send(): the request leaves.
send ==
    /\ m_pc = "send"
    /\ reqs' = Append(reqs, [req |-> m_req, outcome |-> "pending", menu |-> menus])
    /\ m_pc' = "await"
    /\ UNCHANGED <<args, gh_token, menus, m_key, flow, m_req, m_response, m_result, m_out,
                   m_err, exit_code, m_ret>>
    /\ UNCHANGED <<apiVars, cfgVars, dlVars, selVars>>

\* .await? on the request, and what the command or the menu's branch does
\* with the result.
await_response ==
    /\ m_pc = "await"
    /\ \E resp \in MainAnswers, choice \in 0..MaxLen :
           LET r == request_returns(flow, resp)
               next == IF r.ok THEN continuation(flow, r.val, choice)
                       ELSE Step("exited", flow, NoRequest, <<>>)
               pc == try_next(r, next.pc)
           IN  /\ reqs' = answered(reqs, r)
               /\ m_response' = resp
               /\ m_result' = r
               /\ flow' = next.flow
               /\ m_req' = next.req
               /\ m_out' = next.out
               /\ IF pc = "exited"
                  THEN Exits(IF r.ok THEN Ok(Unit) ELSE Err(r.err), m_err)
                  ELSE m_pc' = pc /\ UNCHANGED <<m_ret, exit_code, m_err>>
    /\ UNCHANGED <<args, gh_token, menus, m_key>>
    /\ UNCHANGED <<apiVars, cfgVars, dlVars, selVars>>

\* "Press any key to continue...": term.read_key()?, then the loop's next
\* turn.
press_any_key ==
    /\ m_pc = "press_key"
    /\ \E key \in {"ok", "fails"} :
           IF key = "fails"
           THEN Exits(Err(IoError), m_err)
           ELSE m_pc' = "menu" /\ UNCHANGED <<m_ret, exit_code, m_err>>
    /\ UNCHANGED <<args, gh_token, menus, m_key, flow, m_req, reqs, m_response, m_result, m_out>>
    /\ UNCHANGED <<apiVars, cfgVars, dlVars, selVars>>

MainIdle ==
    /\ m_pc = "start"
    /\ args = "none"
    /\ gh_token = Unset
    /\ menus = 0
    /\ m_key = ""
    /\ flow = "none"
    /\ m_req = NoRequest
    /\ reqs = <<>>
    /\ m_response = NoMainResponse
    /\ m_result = NotReturned
    /\ m_out = <<>>
    /\ m_err = <<>>
    /\ exit_code = -1
    /\ m_ret = NotReturned

-----------------------------------------------------------------------------
(* The selector called on its own (src/ui/selector.rs).                   *)

\* The JSON values a caller may pass: the repository object of the tests,
\* with and without a description, one with no owner (as main's Repo
\* serializes), one whose id is a string, one whose id is negative, and an
\* object with none of the members.
SelectorValues ==
    {StarredObject("hello-world", Str("My first repository")),
     StarredObject("octocat", Null),
     [StarredObject("hello-world", Null) EXCEPT !.owner = OwnerAbsent],
     [StarredObject("hello-world", Null) EXCEPT !.id = Str("1")],
     [StarredObject("hello-world", Null) EXCEPT !.id = Num(-1)],
     ErrorDocument}

\* Whether the selection dialog is shown: neither early return was taken.
shows_dialog(repos) ==
    repos # <<>> /\ SelectSeq(repos, LAMBDA v : from_repo(v).some) # <<>>

\* RepoSelector::select_multiple_repos; picks is the set of item numbers
\* the user ticks, cancelled whether the dialog was left without
\* confirming.
select_multiple_repos(repos, picks, cancelled) ==
    IF repos = <<>> THEN <<>>
    ELSE LET display_items == SelectSeq(repos, LAMBDA v : from_repo(v).some)
             indices == SelectSeq([i \in 1..Len(display_items) |-> i], LAMBDA i : i \in picks)
         IN  IF display_items = <<>> THEN <<>>
             ELSE IF cancelled THEN <<>>
             ELSE [j \in 1..Len(indices) |-> display_items[indices[j]]]

RepoSelector_select_repo ==
    /\ sel_op = "idle"
    /\ \E repos \in ArraysOf(SelectorValues), choice \in 0..MaxLen :
           /\ sel_op' = "select_repo"
           /\ sel_repos' = repos
           /\ prompted' = shows_dialog(repos)
           /\ sel_ret' = select_repo(repos, choice)
    /\ UNCHANGED sel_list
    /\ UNCHANGED <<apiVars, cfgVars, dlVars, mainVars>>

RepoSelector_select_multiple_repos ==
    /\ sel_op = "idle"
    /\ \E repos \in ArraysOf(SelectorValues), picks \in SUBSET (1..MaxLen),
          cancelled \in BOOLEAN :
           /\ sel_op' = "select_multiple_repos"
           /\ sel_repos' = repos
           /\ prompted' = shows_dialog(repos)
           /\ sel_list' = select_multiple_repos(repos, picks, cancelled)
    /\ UNCHANGED sel_ret
    /\ UNCHANGED <<apiVars, cfgVars, dlVars, mainVars>>

\* The selector keeps nothing between calls.
SelectorReturn ==
    /\ sel_op # "idle"
    /\ sel_op' = "idle"
    /\ sel_repos' = <<>>
    /\ prompted' = FALSE
    /\ sel_ret' = None
    /\ sel_list' = <<>>
    /\ UNCHANGED <<apiVars, cfgVars, dlVars, mainVars>>

SelIdle ==
    /\ sel_op = "idle"
    /\ sel_repos = <<>>
    /\ prompted = FALSE
    /\ sel_ret = None
    /\ sel_list = <<>>

-----------------------------------------------------------------------------
(* The specifications.                                                    *)

\* The tokens a client is built with.
Tokens == {"test_token", "invalid_token"}

\* GitHubClient::new(api_url, token): any client, built once, used for
\* every call.
InitApi ==
    /\ ApiIdle
    /\ client \in {GitHubClient(DefaultApiUrl, t) : t \in Tokens}
    /\ CfgIdle
    /\ DlIdle
    /\ MainIdle
    /\ SelIdle

NextApi ==
    \/ get_repo
    \/ list_repos
    \/ get_repo_details
    \/ star_repo
    \/ unstar_repo
    \/ is_starred
    \/ validate_auth
    \/ main_star
    \/ main_unstar
    \/ Return

SpecApi == InitApi /\ [][NextApi]_vars

\* A process starts with any config directory, file and environment; the
\* directory of an existing file exists, so create_dir_all cannot fail then.
InitConfig ==
    /\ ApiIdle
    /\ client = NoClient
    /\ cfg_pc = "start"
    /\ dir \in {"some", "none"}
    /\ file \in Files
    /\ env \in EnvValues
    /\ io \in IoOutcomes
    /\ (io.mkdir = "fails" => file = Missing)
    /\ ret = NoReturn
    /\ writes = 0
    /\ DlIdle
    /\ MainIdle
    /\ SelIdle

NextConfig == Config_new \/ NextInvocation

SpecConfig == InitConfig /\ [][NextConfig]_vars

\* Any configuration on disk and in the environment; no client yet.
InitClient == InitConfig

NextClient ==
    \/ from_config
    \/ new_validated
    \/ validate_github_config
    \/ Return
    \/ NextInvocation

SpecClient == InitClient /\ [][NextClient]_vars

\* Any path, file system and git binary a call may find: a destination
\* only exists under an existing parent, the empty path names nothing, and
\* the parent of the default path and of a bare name is the current
\* directory.
InitDownload ==
    /\ ApiIdle
    /\ client = NoClient
    /\ CfgIdle
    /\ dl_pc = "start"
    /\ git \in {"available", "missing"}
    /\ download_path \in PathKinds
    /\ dest \in {"absent", "dir", "file"}
    /\ parent \in {"absent", "dir", "none"}
    /\ (parent = "none") <=> (download_path = "empty")
    /\ (download_path \in {"default", "bare"} => parent = "dir")
    /\ (parent # "dir" => dest = "absent")
    /\ dl_io \in DlIoOutcomes
    /\ steps = <<>>
    /\ dl_ret = NotDownloaded
    /\ MainIdle
    /\ SelIdle

NextDownload ==
    \/ download_repo_check_git
    \/ download_repo_remove_existing
    \/ download_repo_create_parent
    \/ download_repo_clone

SpecDownload == InitDownload /\ [][NextDownload]_vars

\* Any command line and any GITHUB_TOKEN.
InitMain ==
    /\ ApiIdle
    /\ client = NoClient
    /\ CfgIdle
    /\ DlIdle
    /\ m_pc = "start"
    /\ args \in ArgKinds
    /\ gh_token \in TokenEnv
    /\ menus = 0
    /\ m_key = ""
    /\ flow = "none"
    /\ m_req = NoRequest
    /\ reqs = <<>>
    /\ m_response = NoMainResponse
    /\ m_result = NotReturned
    /\ m_out = <<>>
    /\ m_err = <<>>
    /\ exit_code = -1
    /\ m_ret = NotReturned
    /\ SelIdle

NextMain ==
    \/ main
    \/ interactive_mode
    \/ send
    \/ await_response
    \/ press_any_key

SpecMain == InitMain /\ [][NextMain]_vars

InitSelector ==
    /\ ApiIdle
    /\ client = NoClient
    /\ CfgIdle
    /\ DlIdle
    /\ MainIdle
    /\ SelIdle

NextSelector ==
    \/ RepoSelector_select_repo
    \/ RepoSelector_select_multiple_repos
    \/ SelectorReturn

SpecSelector == InitSelector /\ [][NextSelector]_vars

-----------------------------------------------------------------------------
(* Properties of the endpoint operations, checked under SpecApi.          *)

Answered == response.kind = "http"

\* C1: is_starred returns Ok(true) exactly for status 204, Ok(false) exactly
\* for status 404 and an error for every other status; a transport failure
\* is an error too, never a boolean.
C1_IsStarredByStatus ==
    op = "is_starred" =>
        /\ ~Answered => ~result.ok
        /\ Answered =>
            /\ (result.ok /\ result.val = TRUE) <=> response.status = 204
            /\ (result.ok /\ result.val = FALSE) <=> response.status = 404
            /\ ~result.ok <=> response.status \notin {204, 404}

C1_Witness ==
    /\ op = "is_starred"
    /\ Answered
    /\ response.status = 200
    /\ ~result.ok

\* C2: every star and unstar operation, the client's and the command line's,
\* succeeds exactly for status 200 or 204, otherwise fails with an error that
\* carries the body text; the command never prints its success line after
\* another status.
C2_StarSucceedsOnlyOn200Or204 ==
    (op \in {"star_repo", "unstar_repo", "main_star", "main_unstar"} /\ Answered) =>
        /\ result.ok <=> response.status \in {200, 204}
        /\ (~result.ok /\ response.body.k # "broken") => result.err.text = response.body
        /\ response.status \notin {200, 204} => out = <<>>

\* C3: get_repo, get_repo_details and list_repos return an error for every
\* status other than 200, whatever the body.
C3_Non200IsError ==
    (op \in {"get_repo", "get_repo_details", "list_repos"} /\ Answered
        /\ response.status # 200) => ~result.ok

\* A 204 whose body would deserialize is still an error.
C3_Witness ==
    /\ op = "get_repo"
    /\ Answered
    /\ response.status = 204
    /\ response.body = ObjectBody(ValidObject(1, "hello-world", "octocat", 0, FALSE))
    /\ ~result.ok

\* An object of the documented shape: id and stargazers_count non-negative
\* integers, name a string, owner an object whose login is a string.
DocumentedShape(o) ==
    /\ o.id.k = "num" /\ o.id.n >= 0
    /\ o.name.k = "str"
    /\ o.owner.k = "obj" /\ o.owner.login.k = "str"
    /\ o.stargazers_count.k = "num" /\ o.stargazers_count.n >= 0

\* The record the documented mapping gives for such an object.
Summary(o) ==
    [id |-> o.id.n, name |-> o.name.s, owner |-> [login |-> o.owner.login.s],
     stars |-> o.stargazers_count.n]

\* C4: for a 200 whose body is an object of the documented shape, get_repo
\* returns the record with the body's id, name, owner login and
\* stargazers_count, whatever other members the body has.
C4_GetRepoMapsFields ==
    (op = "get_repo" /\ Answered /\ response.status = 200 /\ response.body.k = "obj"
        /\ DocumentedShape(response.body.obj)) =>
        /\ result.ok
        /\ result.val.id = response.body.obj.id.n
        /\ result.val.name = response.body.obj.name.s
        /\ result.val.owner.login = response.body.obj.owner.login.s
        /\ result.val.stars = response.body.obj.stargazers_count.n

\* A body with unknown members, and a star count that differs from the id.
C4_Witness ==
    /\ op = "get_repo"
    /\ Answered
    /\ response.status = 200
    /\ response.body.k = "obj"
    /\ DocumentedShape(response.body.obj)
    /\ response.body.obj.extra
    /\ response.body.obj.html_url.k = "str"
    /\ response.body.obj.id.n # response.body.obj.stargazers_count.n
    /\ response.body.obj.name.s # response.body.obj.owner.login.s
    /\ result.ok

\* C5: for a 200 whose body is an array of n valid objects, list_repos
\* returns n records in the order of the array; the empty array gives the
\* empty list.
C5_ListKeepsLengthAndOrder ==
    (op = "list_repos" /\ Answered /\ response.status = 200 /\ response.body.k = "arr"
        /\ \A i \in 1..Len(response.body.arr) : DocumentedShape(response.body.arr[i])) =>
        /\ result.ok
        /\ Len(result.val) = Len(response.body.arr)
        /\ \A i \in 1..Len(response.body.arr) : result.val[i] = Summary(response.body.arr[i])

C5_Witness ==
    /\ op = "list_repos"
    /\ Answered
    /\ response.status = 200
    /\ response.body.k = "arr"
    /\ Len(response.body.arr) = 2
    /\ \A i \in 1..2 : DocumentedShape(response.body.arr[i])
    /\ response.body.arr[1] # response.body.arr[2]
    /\ result.ok
    /\ Len(result.val) = 2

\* An object that lacks name or owner, or whose owner is a bare string or an
\* object without login.
Malformed(o) ==
    \/ o.name.k = "absent"
    \/ o.owner.k = "absent"
    \/ o.owner.k = "str"
    \/ (o.owner.k = "obj" /\ o.owner.login.k = "absent")

\* C6: for a 200 whose body is malformed in that way (for list_repos: an
\* array with such an element), the three operations return an error.
C6_MalformedBodyIsError ==
    (Answered /\ response.status = 200
        /\ \/ /\ op \in {"get_repo", "get_repo_details"}
              /\ response.body.k = "obj"
              /\ Malformed(response.body.obj)
           \/ /\ op = "list_repos"
              /\ response.body.k = "arr"
              /\ \E i \in 1..Len(response.body.arr) : Malformed(response.body.arr[i]))
    => ~result.ok

\* owner as a bare string in an otherwise complete body.
C6_Witness ==
    /\ op = "get_repo_details"
    /\ Answered
    /\ response.status = 200
    /\ response.body.k = "obj"
    /\ response.body.obj.owner = OwnerStr("octocat")
    /\ response.body.obj.id = Num(1)
    /\ response.body.obj.name = Str("hello-world")
    /\ response.body.obj.stargazers_count = Num(1)
    /\ response.body.obj.html_url.k = "str"
    /\ ~result.ok

-----------------------------------------------------------------------------
(* Properties of Config::new, checked under SpecConfig. CallOfNew is the  *)
(* step that is one call of Config::new: the unprimed variables are the   *)
(* file and environment the call finds, the primed ones what it leaves.   *)

CallOfNew == cfg_pc = "start" /\ cfg_pc' = "done"

\* The file is found, is TOML and has the expected shape: a [github] table
\* with string token, email and api_url.
LoadsSuccessfully ==
    /\ dir = "some"
    /\ file.k = "toml"
    /\ file.doc.github
    /\ file.doc.token.k = "str"
    /\ file.doc.email.k = "str"
    /\ file.doc.api_url.k = "str"

\* The default configuration: the token of GITHUB_TOKEN or empty, an empty
\* email and the default API URL; and the file that holds it.
DefaultToken == IF env.set THEN env.v ELSE ""
DefaultConfig ==
    [github |-> [token |-> DefaultToken, email |-> "", api_url |-> "https://api.github.com"]]
DefaultFile ==
    [k |-> "toml",
     doc |-> [github |-> TRUE, token |-> Str(DefaultToken), email |-> Str(""),
              api_url |-> Str("https://api.github.com")]]

\* Nothing keeps the default from being persisted.
CanPersist == dir = "some" /\ io.mkdir = "ok" /\ io.write = "ok"

\* C7: whenever loading the config file fails (missing, present but
\* unreadable, present but no TOML of the expected shape), Config::new
\* returns the default configuration and leaves the file holding it. Stated
\* for the calls in which the file can be written, so that only the call
\* itself decides it.
C7_LoadFailureYieldsPersistedDefault ==
    [][(CallOfNew /\ ~LoadsSuccessfully /\ CanPersist) =>
        /\ ret' = [ok |-> TRUE, val |-> DefaultConfig]
        /\ file' = DefaultFile]_vars

\* C8: when the file loads, the returned token is the file's if that is
\* non-empty, else GITHUB_TOKEN's value if set, else empty; email and
\* api_url are the file's.
C8_TokenPrecedence ==
    [][(CallOfNew /\ LoadsSuccessfully) =>
        /\ ret'.ok
        /\ ret'.val.github.token =
               IF file.doc.token.s # "" THEN file.doc.token.s
               ELSE IF env.set THEN env.v ELSE ""
        /\ ret'.val.github.email = file.doc.email.s
        /\ ret'.val.github.api_url = file.doc.api_url.s]_vars

\* The file's token wins although GITHUB_TOKEN is set to another value.
C8_Witness ==
    /\ cfg_pc = "done"
    /\ LoadsSuccessfully
    /\ file.doc.token.s = "existing_token"
    /\ env = Set("abc")
    /\ ret.ok
    /\ ret.val.github.token = "existing_token"
    /\ ret.val.github.email = "test@example.com"

\* C9: on the default-creation path, if the default cannot be persisted
\* (no config directory, the directory cannot be created, the file cannot
\* be written), Config::new returns an error.
C9_PersistFailureIsError ==
    [][(CallOfNew /\ ~LoadsSuccessfully /\ file.k # "unreadable" /\ ~CanPersist) =>
        ~ret'.ok]_vars

\* C10: a call of Config::new writes the file at most once, and only when
\* loading failed; a file that loads is left as it is, also when the
\* returned token came from GITHUB_TOKEN.
C10_WritesOnlyDefaults ==
    [][CallOfNew =>
        /\ writes' <= 1
        /\ writes' = 1 => ~LoadsSuccessfully
        /\ LoadsSuccessfully => (file' = file /\ writes' = 0)]_vars

\* A loaded file with an empty token, the token overlaid, the file kept.
C10_Witness ==
    /\ cfg_pc = "done"
    /\ LoadsSuccessfully
    /\ file.doc.token.s = ""
    /\ env = Set("abc")
    /\ ret.ok
    /\ ret.val.github.token = "abc"
    /\ writes = 0

-----------------------------------------------------------------------------
(* Claims about the construction and validation of a client, checked      *)
(* under SpecClient.                                                      *)

Constructing == op \in {"from_config", "new_validated", "validate_github_config"}

IncompleteConfig == conf.github.api_url = "" \/ conf.github.token = ""

\* C11: from_config, new_validated and validate_github_config return an
\* error and send no HTTP request whenever the configuration's api_url or
\* token is empty, and every client from_config or new_validated returns
\* has a non-empty api_url and a non-empty token.
C11_EmptyConfigIsRefusedUnsent ==
    /\ (Constructing /\ IncompleteConfig) => (~result.ok /\ sent = <<>>)
    /\ (op \in {"from_config", "new_validated"} /\ result.ok)
           => (result.val.api_url # "" /\ result.val.token # "")

C11_Witness ==
    /\ op = "new_validated"
    /\ conf.github.api_url # ""
    /\ conf.github.token = ""
    /\ ~result.ok
    /\ sent = <<>>

C11_WitnessLoaded ==
    /\ op = "validate_github_config"
    /\ ret.ok
    /\ conf.github.api_url = ""
    /\ conf.github.token # ""
    /\ result = Err(ApiError("GitHub configuration is incomplete"))
    /\ sent = <<>>

Accepted == response.kind = "http" /\ response.status \in 200..299

\* C12: new_validated returns a client, and validate_github_config returns
\* Ok, exactly when GET {api_url}/user was sent and answered with a 2xx
\* status; any other status and any transport failure make both return an
\* error.
C12_ValidExactlyOn2xx ==
    op \in {"new_validated", "validate_github_config"}
        => (result.ok <=> (sent = <<UserRequest>> /\ Accepted))

C12_Witness ==
    /\ op = "validate_github_config"
    /\ response.status = 299
    /\ result = Ok(Unit)

C12_WitnessRejected ==
    /\ op = "new_validated"
    /\ sent = <<UserRequest>>
    /\ response.status = 300
    /\ result = Err(ApiError("Invalid GitHub API token"))

-----------------------------------------------------------------------------
(* Further claims about the endpoint operations, checked under SpecApi.   *)

EndpointOps ==
    {"get_repo", "list_repos", "get_repo_details", "star_repo", "unstar_repo",
     "is_starred", "validate_auth"}

\* C15: each invocation of get_repo, list_repos, get_repo_details,
\* star_repo, unstar_repo, is_starred or validate_auth sends exactly one
\* HTTP request, whatever the outcome: nothing is sent again after a
\* transport error or an unexpected status.
C15_OneRequestPerCall == op \in EndpointOps => Len(sent) = 1

C15_Witness ==
    /\ op = "star_repo"
    /\ response = TransportFailure
    /\ result = Err(TransportError)
    /\ Len(sent) = 1

C15_WitnessStatus ==
    /\ op = "get_repo"
    /\ response.status = 500
    /\ ~result.ok
    /\ Len(sent) = 1

\* What the starring operation named returns for the answer resp.
StarringReturns(name, resp) ==
    IF name = "star_repo" THEN star_repo_returns(resp)
    ELSE IF name = "unstar_repo" THEN unstar_repo_returns(resp)
    ELSE is_starred_returns(resp)

\* C19: no error of star_repo, unstar_repo or is_starred contains the
\* bearer token: when the server echoes the presented token in its response
\* body, the error is the one the same call yields under any other token
\* echoed the same way.
C19_ErrorIndependentOfToken ==
    (/\ op \in {"star_repo", "unstar_repo", "is_starred"}
     /\ response.kind = "http"
     /\ response.body = TextBody(client.token)
     /\ ~result.ok)
        => \A t \in Tokens :
               StarringReturns(op, Http(response.status, TextBody(t))) = result

-----------------------------------------------------------------------------
(* A further claim about configuration resolution, checked under          *)
(* SpecConfig.                                                            *)

\* create_default_config has written the file and returned a configuration.
WroteDefault == cfg_pc = "done" /\ writes = 1 /\ ret.ok

\* C20: for every value of GITHUB_TOKEN, set or unset, load_from_file reads
\* from the file create_default_config wrote a configuration with the same
\* token, email and api_url as the one create_default_config returned.
C20_DefaultConfigRoundTrip == WroteDefault => load_from_file(dir, file) = ret

C20_Witness ==
    /\ WroteDefault
    /\ env = Set("abc")
    /\ ret = Ok(Config("abc", "", DefaultApiUrl))
    /\ load_from_file(dir, file) = ret

C20_WitnessUnset ==
    /\ WroteDefault
    /\ env = Unset
    /\ load_from_file(dir, file) = Ok(Config("", "", DefaultApiUrl))

-----------------------------------------------------------------------------
(* Claims about download_repo, checked under SpecDownload.                *)

\* The steps that change the file system.
Mutations == {"remove_dir_all", "create_dir_all", "git clone"}

StepsMade == {steps[i] : i \in 1..Len(steps)}

\* C13: when the git binary is unavailable download_repo returns an error
\* and changes nothing in the file system: the destination is not deleted,
\* no parent directory is created and no clone is attempted.
C13_NoGitNoMutation ==
    /\ [](git = "missing" /\ dl_pc # "start"
            => dl_pc = "done" /\ ~dl_ret.ok /\ StepsMade \cap Mutations = {})
    /\ [][git = "missing" => UNCHANGED <<dest, parent>>]_vars

C13_Witness ==
    /\ git = "missing"
    /\ dl_pc = "done"
    /\ dest = "dir"
    /\ dl_ret = Err(ApiError("Git is not installed or not available in PATH"))
    /\ steps = <<"git --version">>

Rank(step) ==
    IF step = "git --version" THEN 1
    ELSE IF step = "remove_dir_all" THEN 2
    ELSE IF step = "create_dir_all" THEN 3
    ELSE 4

\* The steps made so far are in the order check, removal, creation, clone.
InOrder ==
    /\ \A i, j \in 1..Len(steps) : i < j => Rank(steps[i]) < Rank(steps[j])
    /\ steps # <<>> => steps[1] = "git --version"

\* git clone is about to be invoked.
AtClone == dl_pc = "prepared"

\* git clone has run to its exit.
Cloned ==
    /\ dl_pc = "done"
    /\ steps # <<>>
    /\ steps[Len(steps)] = "git clone"
    /\ dl_io.spawn = "ok"

CloneOutcome ==
    Cloned =>
        IF clone_exit(download_path, dl_io) = 0
        THEN dl_ret = Ok(download_location(download_path))
        ELSE dl_ret = Err(ApiErrorWith("Failed to clone repository: ", dl_io.stderr))

C14_WitnessCreated ==
    /\ AtClone
    /\ steps = <<"git --version", "create_dir_all">>
    /\ parent = "dir"

C14_WitnessFailed ==
    /\ Cloned
    /\ dl_io.exit = 128
    /\ dl_ret = Err(ApiErrorWith("Failed to clone repository: ", "fatal: repository not found"))

-----------------------------------------------------------------------------
(* Claims about the command line, checked under SpecMain.                 *)

Exited == m_pc = "exited"

\* An error reached the command layer: GITHUB_TOKEN is absent although
\* arguments were given, or main did not return Ok.
ErrorReached == (args # "none" /\ ~gh_token.set) \/ ~m_ret.ok

\* C16: every error that reaches the command layer, the absence of
\* GITHUB_TOKEN when a command or --interactive is given included, makes the
\* process print a message and exit with a non-zero status; only runs with
\* no error, the no-argument usage run included, exit 0.
C16_ErrorsExitNonZero ==
    Exited =>
        /\ ErrorReached => (exit_code # 0 /\ m_err # <<>>)
        /\ ~ErrorReached => exit_code = 0

\* The requests that returned an error.
FailedRequests == {i \in 1..Len(reqs) : reqs[i].outcome = "err"}

\* The run is in one of the menu's flows of several requests.
InSeveralRequestFlow ==
    flow \in {"i_detail", "i_unstar", "i_detail_followup", "i_unstar_followup"}

\* C17: in the interactive list-then-detail and list-then-unstar flows the
\* first request that fails aborts the whole command with that error: it
\* is the last request sent, and the menu is not shown again.
C17_FirstFailureAborts ==
    InSeveralRequestFlow =>
        \A i \in FailedRequests :
            /\ i = Len(reqs)
            /\ Exited
            /\ m_ret = Err(m_result.err)
            /\ exit_code = 1
            /\ menus = reqs[i].menu

C17_Witness ==
    /\ flow = "i_detail"
    /\ menus = 2
    /\ Len(reqs) = 2
    /\ reqs[1].outcome = "ok"
    /\ reqs[2].outcome = "err"
    /\ m_response = MainFailure
    /\ Exited
    /\ m_ret = Err(TransportError)

PendingRequests == {i \in 1..Len(reqs) : reqs[i].outcome = "pending"}

\* C18: at most one HTTP request is in flight at any point of a run, and a
\* request is sent only after every earlier one has been answered or has
\* failed.
C18_OneRequestInFlight ==
    /\ Cardinality(PendingRequests) <= 1
    /\ \A i \in PendingRequests : i = Len(reqs)

C18_Witness ==
    /\ Len(reqs) = 2
    /\ reqs[1].outcome = "ok"
    /\ reqs[1].req = ListRequest
    /\ reqs[2].outcome = "pending"
    /\ m_pc = "await"

-----------------------------------------------------------------------------
(* A claim about the selector, checked under SpecSelector.                *)

\* The value has id, name, owner.login and html_url, each of the type the
\* selector reads it as; description is not asked for.
Selectable(v) ==
    /\ v.id.k = "num" /\ v.id.n >= 0
    /\ v.name.k = "str"
    /\ v.owner.k = "obj" /\ v.owner.login.k = "str"
    /\ v.html_url.k = "str"

NothingSelectable == \A i \in 1..Len(sel_repos) : ~Selectable(sel_repos[i])

\* C21: select_repo returns None or one of its input values that has id,
\* name, owner.login and html_url; when the input is empty or holds no such
\* value it returns None without showing the dialog, and
\* select_multiple_repos returns the empty list, without showing it either.
C21_SelectsOnlySelectableInputs ==
    /\ sel_op = "select_repo" =>
           /\ sel_ret.some =>
                  /\ \E i \in 1..Len(sel_repos) : sel_repos[i] = sel_ret.v
                  /\ Selectable(sel_ret.v)
           /\ NothingSelectable => (sel_ret = None /\ ~prompted)
    /\ sel_op = "select_multiple_repos" =>
           /\ \A j \in 1..Len(sel_list) :
                  /\ \E i \in 1..Len(sel_repos) : sel_repos[i] = sel_list[j]
                  /\ Selectable(sel_list[j])
           /\ NothingSelectable => (sel_list = <<>> /\ ~prompted)

C21_Witness ==
    /\ sel_op = "select_repo"
    /\ Len(sel_repos) = 2
    /\ sel_repos[1] = ErrorDocument
    /\ prompted
    /\ sel_ret = Some(sel_repos[2])

C21_WitnessNoPrompt ==
    /\ sel_op = "select_multiple_repos"
    /\ Len(sel_repos) = 2
    /\ NothingSelectable
    /\ ~prompted
    /\ sel_list = <<>>

-----------------------------------------------------------------------------
(* Claims about the interactive menu, checked under SpecMain.             *)

QuitKeys == {"q", "Escape"}
BranchKeys == {"1", "l", "2", "g", "3", "s", "4", "u"}

\* The key read at the menu last is one the menu does not know.
InvalidKeyRead == m_key \in Keys \ (QuitKeys \cup BranchKeys \cup {"read_fails"})

\* interactive_mode was entered, and returned Ok.
InteractiveReturnedOk == menus > 0 /\ Exited /\ m_ret.ok

\* C22: interactive_mode returns Ok only after q or Esc was read at the
\* menu; a turn of the loop that waits for "any key" goes back to the menu
\* unless it ends the run with an error; and in a turn whose key is
\* invalid no HTTP request is sent.
C22_MenuLoopsUntilQuit ==
    /\ [](InteractiveReturnedOk => m_key \in QuitKeys)
    /\ [](InvalidKeyRead => \A i \in 1..Len(reqs) : reqs[i].menu # menus)
    /\ [][(m_pc = "press_key" /\ m_pc' # "press_key")
             => (m_pc' = "menu" \/ (m_pc' = "exited" /\ ~m_ret'.ok))]_vars

C22_Witness ==
    /\ InteractiveReturnedOk
    /\ menus = 2
    /\ m_key = "Escape"
    /\ reqs = <<>>
    /\ m_out = <<"Exiting interactive mode.">>

C22_WitnessInvalid ==
    /\ InvalidKeyRead
    /\ m_pc = "menu"
    /\ menus = 1
    /\ reqs = <<>>

\* The list request of a 2/g or 4/u turn returned a non-empty list and the
\* turn got to its end without a follow-up request.
ListedWithoutFollowUp ==
    /\ flow \in {"i_detail", "i_unstar"}
    /\ m_pc = "press_key"
    /\ m_result.ok
    /\ m_result.val # <<>>

PlaceholderIn(req) == \E k \in 1..Len(req.path) : req.path[k] = "unknown"

\* C23: in a 2/g or 4/u turn whose list is non-empty the user is offered
\* the listed repositories (so a turn that ends without a follow-up
\* request is one where the offer was declined), and no request is sent
\* with the placeholder "unknown" for the owner or the name.
C23_ListedReposOfferedAndUsed ==
    /\ ListedWithoutFollowUp => m_out = <<"Select a repository">>
    /\ \A i \in 1..Len(reqs) : ~PlaceholderIn(reqs[i].req)

=============================================================================
